---- MODULE Spec2Model ----
(***************************************************************************)
(* Model of the mkfifo utility (src/src/mkfifo.c).                         *)
(*                                                                         *)
(* One invocation of mkfifo_main is modelled step by step: one step per    *)
(* getopt() iteration, one for the operand check after the option loop,    *)
(* one per mkfifo_path() call.  The command line is modelled after         *)
(* tokenisation by getopt(): a sequence of option events followed by the   *)
(* operands.  Mode strings are sequences of one-character strings and are  *)
(* parsed character by character as setmode(3) does; modes are integers.   *)
(* The permission-copy forms (u, g, o after an operator) and the letters   *)
(* s, t, X of setmode(3) are outside the modelled input alphabet.          *)
(***************************************************************************)
EXTENDS Integers, Sequences, FiniteSets, TLC

----------------------------------------------------------------------------
(* Bounds of the model *)

MaxOpts == 2
MaxPaths == 2
MaxClauses == 2
MaxWho == 2
MaxPerm == 2

----------------------------------------------------------------------------
(* Program constants *)

EXIT_SUCCESS == 0
EXIT_FAILURE == 1

S_IRUSR == 256
S_IWUSR == 128
S_IXUSR == 64
S_IRGRP == 32
S_IWGRP == 16
S_IXGRP == 8
S_IROTH == 4
S_IWOTH == 2
S_IXOTH == 1

S_IRWXU == 448
S_IRWXG == 56
S_IRWXO == 7
S_ISUID == 2048
S_ISGID == 1024
S_ISTXT == 512
STANDARD_BITS == 4095 - 512
ALLBITS == 4095

----------------------------------------------------------------------------
(* Bit operations on 12-bit modes *)

RECURSIVE BitAnd(_, _)
BitAnd(a, b) ==
  IF a = 0 \/ b = 0 THEN 0
  ELSE (a % 2) * (b % 2) + 2 * BitAnd(a \div 2, b \div 2)

BitNot(a) == ALLBITS - a

BitOr(a, b) == a + b - BitAnd(a, b)

----------------------------------------------------------------------------
(* setmode(3) / getmode(3) as called by mkfifo_parse_mode *)

NUL == "NUL"

Ch(s, p) == IF p <= Len(s) THEN s[p] ELSE NUL

DecDigits == <<"0", "1", "2", "3", "4", "5", "6", "7", "8", "9">>

isdigit(c) == \E k \in 1..10 : DecDigits[k] = c

IsOctDigit(c) == \E k \in 1..8 : DecDigits[k] = c

DigitVal(c) == (CHOOSE k \in 1..10 : DecDigits[k] = c) - 1

(* strtoul(p, &ep, 8): the value of the longest octal prefix and the       *)
(* position of the first character after it.                               *)
RECURSIVE strtoul8(_, _, _)
strtoul8(s, p, acc) ==
  IF IsOctDigit(Ch(s, p)) THEN strtoul8(s, p + 1, acc * 8 + DigitVal(s[p]))
  ELSE [val |-> acc, ep |-> p]

(* addcmd(): '=' is a clear of the affected classes followed by an add.    *)
addcmdEqualAsPlus(op, who, oparg, mask) ==
  <<[cmd |-> IF op = "=" THEN "+" ELSE op,
     bits |-> BitAnd(IF who # 0 THEN who ELSE mask, oparg)]>>

addcmd(op, who, oparg, mask) ==
  IF op = "="
  THEN <<[cmd |-> "-", bits |-> IF who # 0 THEN who ELSE STANDARD_BITS],
         [cmd |-> "+", bits |-> BitAnd(IF who # 0 THEN who ELSE mask, oparg)]>>
  ELSE <<[cmd |-> op, bits |-> BitAnd(IF who # 0 THEN who ELSE mask, oparg)]>>

WhoBits(c) ==
  CASE c = "a" -> STANDARD_BITS
    [] c = "u" -> S_ISUID + S_IRWXU
    [] c = "g" -> S_ISGID + S_IRWXG
    [] c = "o" -> S_IRWXO
    [] OTHER -> 0

PermBits(c) ==
  CASE c = "r" -> S_IRUSR + S_IRGRP + S_IROTH
    [] c = "w" -> S_IWUSR + S_IWGRP + S_IWOTH
    [] c = "x" -> S_IXUSR + S_IXGRP + S_IXOTH
    [] OTHER -> 0

(* The "who" loop: consumes class letters, accumulating the bits.          *)
RECURSIVE ParseWho(_, _, _)
ParseWho(s, p, who) ==
  IF Ch(s, p) \in {"a", "u", "g", "o"}
  THEN ParseWho(s, p + 1, BitOr(who, WhoBits(s[p])))
  ELSE [p |-> p, who |-> who]

(* The permission loop: consumes r, w, x, accumulating the bits.           *)
RECURSIVE ParsePerm(_, _, _)
ParsePerm(s, p, perm) ==
  IF Ch(s, p) \in {"r", "w", "x"}
  THEN ParsePerm(s, p + 1, BitOr(perm, PermBits(s[p])))
  ELSE [p |-> p, perm |-> perm]

SETMODE_NULL == [ok |-> FALSE, cmds |-> <<>>]

(* From the label getop: to the end of the clause loop.                    *)
RECURSIVE GetOp(_, _, _, _, _, _)
GetOp(s, p, who0, cmds, equalopdone, mask) ==
  LET op == Ch(s, p)
  IN IF op \notin {"+", "-", "="} THEN SETMODE_NULL
     ELSE
       LET eq1 == IF op = "=" THEN FALSE ELSE equalopdone
           who == BitAnd(who0, BitNot(S_ISTXT))
           pm == ParsePerm(s, p + 1, 0)
           add == pm.perm # 0 \/ (op = "=" /\ ~eq1)
           cmds1 == IF add THEN cmds \o addcmd(op, who, pm.perm, mask) ELSE cmds
           eq2 == IF add /\ op = "=" THEN TRUE ELSE eq1
           c == Ch(s, pm.p)
       IN IF c = NUL THEN [ok |-> TRUE, cmds |-> cmds1]
          ELSE IF c # "," THEN GetOp(s, pm.p, who, cmds1, eq2, mask)
          ELSE LET w == ParseWho(s, pm.p + 1, 0)
               IN GetOp(s, w.p, w.who, cmds1, eq2, mask)

(* setmode(p) in a process whose file-creation mask is um.                 *)
setmode(s, um) ==
  LET mask == BitNot(um)
  IN IF Ch(s, 1) = NUL THEN SETMODE_NULL
     ELSE IF isdigit(s[1])
     THEN LET r == strtoul8(s, 1, 0)
          IN IF Ch(s, r.ep) # NUL THEN SETMODE_NULL
             ELSE IF r.val > ALLBITS THEN SETMODE_NULL
             ELSE [ok |-> TRUE, cmds |-> addcmd("=", ALLBITS, r.val, mask)]
     ELSE LET w == ParseWho(s, 1, 0)
          IN GetOp(s, w.p, w.who, <<>>, FALSE, mask)

(* getmode(set, omode): applies the commands in order.                     *)
RECURSIVE getmode(_, _)
getmode(cmds, omode) ==
  IF cmds = <<>> THEN omode
  ELSE LET c == Head(cmds)
       IN getmode(Tail(cmds),
                  IF c.cmd = "+" THEN BitOr(omode, c.bits)
                  ELSE BitAnd(omode, BitNot(c.bits)))

----------------------------------------------------------------------------
(* Inputs *)

PATH_MKFIFO == <<"build", "fifo">>
PATH_MKFIFO_2 == <<"build", "fifo-2">>
PATH_NOEXIST == <<"build", "noexist", "test-fifo">>

Paths == {PATH_MKFIFO, PATH_MKFIFO_2, PATH_NOEXIST}

(* Directories that exist; a path whose parent is not one cannot be made.  *)
Directories == {<<"build">>}

Parent(path) == SubSeq(path, 1, Len(path) - 1)

(* File-creation masks the process may be started with.                    *)
AmbientUmasks == {0, 18, 63}

SeqsUpTo(S, n) == UNION {[1..k -> S] : k \in 0..n}

OptM(str) == [c |-> "m", optarg |-> str]

OptUnknown == [c |-> "?", optarg |-> <<>>]

(* Mode strings of the main specification: octal numerals, symbolic        *)
(* expressions and malformed expressions.                                  *)
ModeStrs ==
  { <<"1", "2", "3">>, <<"6", "0", "0">>,
    <<"u", "+", "x">>, <<"g", "o", "-", "w">>, <<"=", "r">>,
    <<"a", "b", "c">>, <<>>, <<"u", "+", "r", ",">> }

Options == {OptM(m) : m \in ModeStrs} \cup {OptUnknown}

----------------------------------------------------------------------------
(* State *)

VARIABLES
  argv,        \* [opts, paths]: the command line as getopt() delivers it
  umask0,      \* file-creation mask the process was started with
  pc,          \* position in mkfifo_main
  optind,      \* index of the next option event
  i,           \* loop index over the operands (0-based, as in the code)
  mkfifo_ctx,  \* struct mkfifo_ctx: [status_code, mode]
  umask,       \* file-creation mask of the process
  fs,          \* file system: existing path -> [type, perms]
  stderr,      \* diagnostics written by vwarn/vwarnx
  attempts     \* history of mkfifo() calls: [path, mode, umask, ret]

vars == <<argv, umask0, pc, optind, i, mkfifo_ctx, umask, fs, stderr, attempts>>

argc == Len(argv.paths)

----------------------------------------------------------------------------
(* Functions of mkfifo.c *)

(* default_mode of the test suite: S_IRUSR | S_IWUSR | S_IRGRP | S_IROTH *)
default_mode == 420

(* S_IRUSR | S_IWUSR | S_IRGRP | S_IWGRP | S_IROTH | S_IWOTH *)
DefaultMode == 438

BaseMode == 438

mkfifo_warn(ctx, err, msg) ==
  [ctx |-> [ctx EXCEPT !.status_code = EXIT_FAILURE],
   stderr |-> Append(err, msg)]

(* mkfifo(2): the node gets the permission bits of mode & ~umask.  The     *)
(* call fails when the path exists, when its parent directory is missing   *)
(* or when the system refuses for another reason (oserr).                  *)
mkfifo(fsys, um, path, mode, oserr) ==
  IF oserr \/ path \in DOMAIN fsys \/ Parent(path) \notin Directories
  THEN [ret |-> -1, fs |-> fsys]
  ELSE [ret |-> 0,
        fs |-> [q \in DOMAIN fsys \cup {path} |->
                  IF q = path
                  THEN [type |-> "fifo",
                        perms |-> BitAnd(BitAnd(mode, BitNot(um)), 511)]
                  ELSE fsys[q]]]

mkfifo_pathSilent(ctx, err, um, fsys, path, oserr) ==
  LET r == mkfifo(fsys, um, path, ctx.mode, oserr)
  IN [ctx |-> ctx, stderr |-> err, fs |-> r.fs, ret |-> r.ret]

mkfifo_path(ctx, err, um, fsys, path, oserr) ==
  LET r == mkfifo(fsys, um, path, ctx.mode, oserr)
  IN IF r.ret # 0
     THEN LET w == mkfifo_warn(ctx, err, <<"cannot create fifo", path>>)
          IN [ctx |-> w.ctx, stderr |-> w.stderr, fs |-> r.fs, ret |-> r.ret]
     ELSE [ctx |-> ctx, stderr |-> err, fs |-> r.fs, ret |-> r.ret]

mkfifo_parse_modeKeepUmask(ctx, err, um, mode_str) ==
  LET compiled == setmode(mode_str, um)
  IN IF ~compiled.ok
     THEN LET w == mkfifo_warn(ctx, err, <<"setmode", mode_str>>)
          IN [ctx |-> w.ctx, stderr |-> w.stderr, umask |-> um]
     ELSE [ctx |-> [ctx EXCEPT !.mode = getmode(compiled.cmds, BaseMode)],
           stderr |-> err, umask |-> um]

mkfifo_parse_modeNoWarn(ctx, err, um, mode_str) ==
  LET compiled == setmode(mode_str, 0)
  IN IF ~compiled.ok
     THEN [ctx |-> ctx, stderr |-> err, umask |-> 0]
     ELSE [ctx |-> [ctx EXCEPT !.mode = getmode(compiled.cmds, BaseMode)],
           stderr |-> err, umask |-> 0]

mkfifo_parse_modeOnCurrent(ctx, err, um, mode_str) ==
  LET compiled == setmode(mode_str, 0)
  IN IF ~compiled.ok
     THEN LET w == mkfifo_warn(ctx, err, <<"setmode", mode_str>>)
          IN [ctx |-> w.ctx, stderr |-> w.stderr, umask |-> 0]
     ELSE [ctx |-> [ctx EXCEPT !.mode = getmode(compiled.cmds, ctx.mode)],
           stderr |-> err, umask |-> 0]

mkfifo_parse_modeResetStatus(ctx, err, um, mode_str) ==
  LET compiled == setmode(mode_str, 0)
  IN IF ~compiled.ok
     THEN LET w == mkfifo_warn(ctx, err, <<"setmode", mode_str>>)
          IN [ctx |-> w.ctx, stderr |-> w.stderr, umask |-> 0]
     ELSE [ctx |-> [status_code |-> EXIT_SUCCESS,
                    mode |-> getmode(compiled.cmds, BaseMode)],
           stderr |-> err, umask |-> 0]

(* um is the mask in force at the call; umask(0) replaces it.              *)
mkfifo_parse_mode(ctx, err, um, mode_str) ==
  LET compiled == setmode(mode_str, 0)
  IN IF ~compiled.ok
     THEN LET w == mkfifo_warn(ctx, err, <<"setmode", mode_str>>)
          IN [ctx |-> w.ctx, stderr |-> w.stderr, umask |-> 0]
     ELSE [ctx |-> [ctx EXCEPT !.mode = getmode(compiled.cmds, BaseMode)],
           stderr |-> err, umask |-> 0]

getopt_defaultIgnored(ctx, err, um) ==
  [ctx |-> ctx, stderr |-> err, umask |-> um]

(* default: mkfifo_ctx.status_code = EXIT_FAILURE *)
getopt_default(ctx, err, um) ==
  [ctx |-> [ctx EXCEPT !.status_code = EXIT_FAILURE], stderr |-> err, umask |-> um]

(* switch(c) in the getopt loop *)
getopt_switch(ctx, err, um, opt) ==
  IF opt.c = "m" THEN mkfifo_parse_mode(ctx, err, um, opt.optarg)
  ELSE getopt_default(ctx, err, um)

(* while((c = getopt(argc, argv, "m:")) != -1): the whole option loop      *)
RECURSIVE getopt_loop(_, _, _, _)
getopt_loop(opts, ctx, err, um) ==
  IF opts = <<>> THEN [ctx |-> ctx, stderr |-> err, umask |-> um]
  ELSE LET r == getopt_switch(ctx, err, um, Head(opts))
       IN getopt_loop(Tail(opts), r.ctx, r.stderr, r.umask)

----------------------------------------------------------------------------
(* mkfifo_main *)

InitCommon ==
  /\ pc = "getopt"
  /\ optind = 1
  /\ i = 0
  /\ mkfifo_ctx = [status_code |-> 0, mode |-> DefaultMode]
  /\ umask = umask0
  /\ fs = <<>>
  /\ stderr = <<>>
  /\ attempts = <<>>

Init ==
  /\ argv \in [opts : SeqsUpTo(Options, MaxOpts),
               paths : SeqsUpTo(Paths, MaxPaths)]
  /\ umask0 \in AmbientUmasks
  /\ InitCommon

(* case 'm' of the getopt loop *)
GetoptM ==
  /\ pc = "getopt"
  /\ optind <= Len(argv.opts)
  /\ argv.opts[optind].c = "m"
  /\ \E r \in {mkfifo_parse_mode(mkfifo_ctx, stderr, umask,
                                   argv.opts[optind].optarg)} :
        /\ mkfifo_ctx' = r.ctx
        /\ stderr' = r.stderr
        /\ umask' = r.umask
  /\ optind' = optind + 1
  /\ UNCHANGED <<argv, umask0, pc, i, fs, attempts>>

(* default case of the getopt loop: an unrecognized option *)
GetoptDefault ==
  /\ pc = "getopt"
  /\ optind <= Len(argv.opts)
  /\ argv.opts[optind].c # "m"
  /\ \E r \in {getopt_default(mkfifo_ctx, stderr, umask)} :
        /\ mkfifo_ctx' = r.ctx
        /\ stderr' = r.stderr
        /\ umask' = r.umask
  /\ optind' = optind + 1
  /\ UNCHANGED <<argv, umask0, pc, i, fs, attempts>>

(* getopt() returns -1: argc -= optind; argv += optind *)
GetoptEnd ==
  /\ pc = "getopt"
  /\ optind > Len(argv.opts)
  /\ pc' = "operands"
  /\ UNCHANGED <<argv, umask0, optind, i, mkfifo_ctx, umask, fs, stderr, attempts>>

(* status_code != 0 after option scanning: return at once *)
SkipOnFailure ==
  /\ pc = "operands"
  /\ mkfifo_ctx.status_code # 0
  /\ pc' = "done"
  /\ UNCHANGED <<argv, umask0, optind, i, mkfifo_ctx, umask, fs, stderr, attempts>>

(* argc < 1 *)
MissingOperand ==
  /\ pc = "operands"
  /\ mkfifo_ctx.status_code = 0
  /\ argc < 1
  /\ LET w == mkfifo_warn(mkfifo_ctx, stderr, <<"missing file...">>)
     IN /\ mkfifo_ctx' = w.ctx
        /\ stderr' = w.stderr
  /\ pc' = "done"
  /\ UNCHANGED <<argv, umask0, optind, i, umask, fs, attempts>>

StartLoopUngated ==
  /\ pc = "operands"
  /\ argc >= 1
  /\ i' = 0
  /\ pc' = "loop"
  /\ UNCHANGED <<argv, umask0, optind, mkfifo_ctx, umask, fs, stderr, attempts>>

(* for(i = 0; ...) *)
StartLoop ==
  /\ pc = "operands"
  /\ mkfifo_ctx.status_code = 0
  /\ argc >= 1
  /\ i' = 0
  /\ pc' = "loop"
  /\ UNCHANGED <<argv, umask0, optind, mkfifo_ctx, umask, fs, stderr, attempts>>

MkfifoPathBreak ==
  /\ pc = "loop"
  /\ i < argc
  /\ \E oserr \in BOOLEAN :
       \E r \in {mkfifo_path(mkfifo_ctx, stderr, umask, fs, argv.paths[i + 1], oserr)} :
          /\ mkfifo_ctx' = r.ctx
          /\ stderr' = r.stderr
          /\ fs' = r.fs
          /\ attempts' = Append(attempts,
                                [path |-> argv.paths[i + 1], mode |-> mkfifo_ctx.mode,
                                 umask |-> umask, ret |-> r.ret])
          /\ i' = i + 1
          /\ pc' = IF i + 1 < argc /\ r.ret = 0 THEN "loop" ELSE "done"
  /\ UNCHANGED <<argv, umask0, optind, umask>>

(* one iteration of the loop: mkfifo_path(&mkfifo_ctx, argv[i]); i++ *)
MkfifoPath ==
  /\ pc = "loop"
  /\ i < argc
  /\ \E oserr \in BOOLEAN :
       \E r \in {mkfifo_path(mkfifo_ctx, stderr, umask, fs, argv.paths[i + 1], oserr)} :
          /\ mkfifo_ctx' = r.ctx
          /\ stderr' = r.stderr
          /\ fs' = r.fs
          /\ attempts' = Append(attempts,
                                [path |-> argv.paths[i + 1], mode |-> mkfifo_ctx.mode,
                                 umask |-> umask, ret |-> r.ret])
          /\ i' = i + 1
          /\ pc' = IF i + 1 < argc THEN "loop" ELSE "done"
  /\ UNCHANGED <<argv, umask0, optind, umask>>

Next ==
  \/ GetoptM
  \/ GetoptDefault
  \/ GetoptEnd
  \/ SkipOnFailure
  \/ MissingOperand
  \/ StartLoop
  \/ MkfifoPath

Spec == Init /\ [][Next]_vars

----------------------------------------------------------------------------
(* Specification of the mode compiler: one invocation with at most one     *)
(* option, whose mode string ranges over the octal numerals of up to three *)
(* digits, the symbolic expressions of the grammar within the bounds, and  *)
(* malformed expressions.                                                  *)

ClassLetters == {"u", "g", "o", "a"}
OpLetters == {"+", "-", "="}
PermLetters == {"r", "w", "x"}

(* Every clause of the grammar [ugoa]*[+-=][rwx]+ within the bounds. *)
Clauses ==
  [who : SeqsUpTo(ClassLetters, MaxWho),
   op : OpLetters,
   perm : SeqsUpTo(PermLetters, MaxPerm) \ {<<>>}]

(* The clauses that expressions of several clauses are made of. *)
ListClauses ==
  [who : {<<>>, <<"u">>, <<"g", "o">>},
   op : OpLetters,
   perm : {<<"r">>, <<"w">>, <<"x">>}]

SymbolicExprs ==
  {<<cl>> : cl \in Clauses} \cup (SeqsUpTo(ListClauses, MaxClauses) \ {<<>>})

RenderClause(cl) == cl.who \o <<cl.op>> \o cl.perm

RECURSIVE Render(_)
Render(cls) ==
  IF Len(cls) = 1 THEN RenderClause(cls[1])
  ELSE RenderClause(cls[1]) \o <<",">> \o Render(Tail(cls))

OctalStrs ==
  UNION {[1..n -> {DecDigits[k] : k \in 1..8}] : n \in 1..3}
    \cup {<<"0", "6", "4", "4">>, <<"1", "7", "7", "7">>, <<"1", "0", "0", "0", "0">>}

MalformedStrs ==
  { <<>>, <<"a", "b", "c">>, <<"8">>, <<"1", "2", "9">>, <<"r">>, <<"u">>,
    <<",">>, <<"u", "+", "r", ",">>, <<",", "u", "+", "r">>,
    <<"u", "+", "r", ",", ",", "g", "+", "w">>, <<"u", "r">>,
    <<"6", "4", "4", ",", "u", "+", "x">>, <<"u", "+", "x", ",", "6", "4", "4">> }

CompilerModeStrs ==
  {Render(cls) : cls \in SymbolicExprs} \cup OctalStrs \cup MalformedStrs

InitMode ==
  /\ argv \in {[opts |-> o, paths |-> <<>>] : o \in {<<>>, <<OptUnknown>>}}
            \cup [opts : {<<>>, <<OptUnknown>>}
                          \cup {<<OptM(m)>> : m \in CompilerModeStrs},
                   paths : {<<PATH_MKFIFO>>}]
  /\ umask0 \in {0, 18}
  /\ InitCommon

SpecMode == InitMode /\ [][Next]_vars

(* The value mkfifo_main returns. *)
ReturnValue == mkfifo_ctx.status_code

----------------------------------------------------------------------------
(* Vocabulary of the properties *)

Range(f) == {f[k] : k \in DOMAIN f}

OptCount == Len(argv.opts)

(* The option events already handled by the getopt loop. *)
ScannedIdx == 1..(optind - 1)

MIdx == {k \in 1..OptCount : argv.opts[k].c = "m"}

(* The grammar of mode expressions: an octal numeral, or comma-separated  *)
(* clauses [ugoa]*[+-=][rwx]+.                                             *)
IsOctalNumeral(s) ==
  /\ Len(s) >= 1
  /\ \A k \in 1..Len(s) : s[k] \in {"0", "1", "2", "3", "4", "5", "6", "7"}

IsClause(seg) ==
  \E k \in 1..Len(seg) :
    /\ seg[k] \in OpLetters
    /\ \A j \in 1..(k - 1) : seg[j] \in ClassLetters
    /\ k < Len(seg)
    /\ \A j \in (k + 1)..Len(seg) : seg[j] \in PermLetters

(* Positions of the clause separators, with both ends of the string. *)
Cuts(s) == {0, Len(s) + 1} \cup {k \in 1..Len(s) : s[k] = ","}

NextCut(s, a) == CHOOSE b \in Cuts(s) : b > a /\ \A c \in Cuts(s) : c > a => b <= c

IsSymbolic(s) ==
  \A a \in Cuts(s) \ {Len(s) + 1} : IsClause(SubSeq(s, a + 1, NextCut(s, a) - 1))

WellFormedMode(s) == IsOctalNumeral(s) \/ IsSymbolic(s)

(* Value of an octal numeral, last digit first. *)
RECURSIVE NumeralValue(_)
NumeralValue(s) ==
  IF s = <<>> THEN 0
  ELSE 8 * NumeralValue(SubSeq(s, 1, Len(s) - 1)) + DigitVal(s[Len(s)])

UnknownSeen == \E k \in ScannedIdx : argv.opts[k].c = "?"

MalformedSeen ==
  \E k \in ScannedIdx : argv.opts[k].c = "m" /\ ~WellFormedMode(argv.opts[k].optarg)

ParseFailed == UnknownSeen \/ MalformedSeen

AnyCreationFailed == \E k \in DOMAIN attempts : attempts[k].ret # 0

(* Permissions as sets of <<class, permission>> pairs. *)
Classes == {"u", "g", "o"}

BitOf(c, q) ==
  (CASE c = "u" -> 64 [] c = "g" -> 8 [] OTHER -> 1)
  * (CASE q = "r" -> 4 [] q = "w" -> 2 [] OTHER -> 1)

Decode(m) == {cq \in Classes \X PermLetters : (m \div BitOf(cq[1], cq[2])) % 2 = 1}

(* rw-rw-rw- *)
BasePerms == Classes \X {"r", "w"}

OpPos(seg) == CHOOSE k \in 1..Len(seg) : seg[k] \in OpLetters

Targets(seg) ==
  LET who == {seg[j] : j \in 1..(OpPos(seg) - 1)}
  IN IF who = {} \/ "a" \in who THEN Classes ELSE who

Listed(seg) == {seg[j] : j \in (OpPos(seg) + 1)..Len(seg)}

ApplyClause(P, seg) ==
  LET op == seg[OpPos(seg)]
      B == Targets(seg) \X Listed(seg)
  IN CASE op = "+" -> P \cup B
       [] op = "-" -> P \ B
       [] OTHER -> (P \ (Targets(seg) \X PermLetters)) \cup B

(* The clauses of s from cut a on, applied left to right to P. *)
RECURSIVE FoldClauses(_, _, _)
FoldClauses(s, a, P) ==
  IF a = Len(s) + 1 THEN P
  ELSE LET b == NextCut(s, a)
       IN FoldClauses(s, b, ApplyClause(P, SubSeq(s, a + 1, b - 1)))

(* The command line with every -m but the last removed. *)
OnlyLastM(opts) ==
  LET ms == {k \in 1..Len(opts) : opts[k].c = "m"}
      last == CHOOSE k \in ms : \A j \in ms : j <= k
      keep(k) == opts[k].c # "m" \/ k = last
  IN SelectSeq([k \in 1..Len(opts) |-> [idx |-> k, opt |-> opts[k]]],
               LAMBDA e : keep(e.idx))

InitialCtx == [status_code |-> 0, mode |-> 438]

(* The state after option scanning agrees with that of the invocation     *)
(* given only the last -m: same status, same mask, and the same mode when *)
(* the status allows a creation attempt.                                   *)
AgreesWithLastM ==
  LET kept == OnlyLastM(argv.opts)
      ref == getopt_loop([k \in 1..Len(kept) |-> kept[k].opt], InitialCtx, <<>>, umask0)
  IN /\ mkfifo_ctx.status_code = ref.ctx.status_code
     /\ umask = ref.umask
     /\ (ref.ctx.status_code = EXIT_SUCCESS => mkfifo_ctx.mode = ref.ctx.mode)

----------------------------------------------------------------------------
(* Properties *)

(* C1: the returned status is EXIT_FAILURE if and only if at least one     *)
(* creation failed, or the path list was empty, or option/mode parsing had *)
(* failed; otherwise it is EXIT_SUCCESS.  An empty path list returns       *)
(* failure with no creation attempt.                                       *)
C1_ExitStatus ==
  pc = "done" =>
    /\ ReturnValue \in {EXIT_SUCCESS, EXIT_FAILURE}
    /\ (ReturnValue = EXIT_FAILURE) <=> (AnyCreationFailed \/ argc = 0 \/ ParseFailed)
    /\ (argc = 0 => ReturnValue = EXIT_FAILURE /\ attempts = <<>>)

C1_Witness ==
  /\ pc = "done"
  /\ ~ParseFailed
  /\ Len(attempts) = 2
  /\ attempts[1].ret # 0
  /\ attempts[2].ret = 0
  /\ ReturnValue = EXIT_FAILURE

(* C2: when option parsing succeeded and the path list is non-empty,       *)
(* creation is attempted exactly once per path, in argument order,         *)
(* whichever attempts failed; a FIFO once created is never removed.        *)
C2_AttemptOrder ==
  /\ Len(attempts) <= argc
  /\ \A k \in DOMAIN attempts : attempts[k].path = argv.paths[k]
  /\ (pc = "done" /\ ~ParseFailed /\ argc > 0) => Len(attempts) = argc
  /\ \A k \in DOMAIN attempts :
       attempts[k].ret = 0 =>
         attempts[k].path \in DOMAIN fs /\ fs[attempts[k].path].type = "fifo"

C2_Witness ==
  /\ pc = "done"
  /\ Len(attempts) = 2
  /\ attempts[1].ret # 0
  /\ attempts[2].ret = 0
  /\ attempts[1].path = PATH_NOEXIST
  /\ attempts[2].path \in DOMAIN fs

C4_Original ==
  (pc = "done" /\ MIdx = {} /\ ReturnValue = EXIT_SUCCESS) =>
    /\ \A q \in DOMAIN fs : fs[q].type = "fifo" /\ fs[q].perms = 420
    /\ mkfifo_ctx.mode = 420
    /\ mkfifo_ctx.mode # BaseMode

(* C4 amended: without -m, on success, every created node is a FIFO whose  *)
(* permission bits are 0666 with the bits of the ambient file-creation     *)
(* mask removed (0644 under the mask 022); the default mode is 0666, the   *)
(* same value as the base used with -m.                                    *)
C4_DefaultMode ==
  (pc = "done" /\ MIdx = {} /\ ReturnValue = EXIT_SUCCESS) =>
    /\ \A k \in DOMAIN attempts :
         /\ attempts[k].path \in DOMAIN fs
         /\ fs[attempts[k].path].type = "fifo"
         /\ fs[attempts[k].path].perms = BitAnd(438, BitNot(umask0))
         /\ (umask0 = 18 => fs[attempts[k].path].perms = 420)
    /\ mkfifo_ctx.mode = 438
    /\ BaseMode = 438

C4_Witness ==
  /\ pc = "done"
  /\ MIdx = {}
  /\ ReturnValue = EXIT_SUCCESS
  /\ umask0 = 18
  /\ DOMAIN fs = {PATH_MKFIFO, PATH_MKFIFO_2}
  /\ fs[PATH_MKFIFO].perms = 420

(* C5: when the -m in force is an octal numeral of permission bits, the    *)
(* file-creation mask is zero at every creation attempt and every created  *)
(* FIFO has exactly the numeral as permission bits, whatever the ambient   *)
(* mask.                                                                   *)
C5_OctalVerbatim ==
  \A k \in DOMAIN attempts :
    \A m \in MIdx :
      ((\A j \in MIdx : j <= m) /\ IsOctalNumeral(argv.opts[m].optarg)
         /\ NumeralValue(argv.opts[m].optarg) <= 511) =>
        /\ attempts[k].umask = 0
        /\ attempts[k].mode = NumeralValue(argv.opts[m].optarg)
        /\ (attempts[k].ret = 0 =>
              fs[attempts[k].path].perms = NumeralValue(argv.opts[m].optarg))

C5_Witness ==
  /\ pc = "done"
  /\ argv.opts = <<OptM(<<"1", "2", "3">>)>>
  /\ umask0 = 18
  /\ PATH_MKFIFO \in DOMAIN fs
  /\ fs[PATH_MKFIFO].perms = 83

(* C6: an unrecognized option makes the status failure whatever the path   *)
(* list, and option scanning goes on over the remaining options.           *)
C6_UnknownOption ==
  /\ UnknownSeen => mkfifo_ctx.status_code = EXIT_FAILURE
  /\ pc # "getopt" => optind = OptCount + 1
  /\ (pc # "getopt" /\ MIdx # {}) => umask = 0

C6_Witness ==
  /\ pc = "done"
  /\ argv.opts = <<OptUnknown, OptM(<<"a", "b", "c">>)>>
  /\ argc = 1
  /\ <<"setmode", <<"a", "b", "c">>>> \in Range(stderr)
  /\ ReturnValue = EXIT_FAILURE

(* C7: for a well-formed symbolic expression the effective mode is the     *)
(* left-to-right fold of its clauses over rw-rw-rw-: + adds the listed     *)
(* bits to the targeted classes, - removes them, = replaces the targeted   *)
(* classes' bits by the listed set; no class letter targets all classes.   *)
C7_SymbolicFold ==
  (optind > 1 /\ argv.opts[optind - 1].c = "m"
     /\ IsSymbolic(argv.opts[optind - 1].optarg)) =>
    /\ mkfifo_ctx.mode < 512
    /\ Decode(mkfifo_ctx.mode) = FoldClauses(argv.opts[optind - 1].optarg, 0, BasePerms)

C7_Witness ==
  /\ pc = "done"
  /\ argv.opts = <<OptM(<<"g", "o", "=", "x", ",", "+", "r">>)>>
  /\ mkfifo_ctx.mode = 429
  /\ umask0 = 18
  /\ PATH_MKFIFO \in DOMAIN fs
  /\ fs[PATH_MKFIFO].perms = 429

(* C8 as stated: with more than one -m, the state after option scanning is *)
(* that of the invocation given only the last -m, whatever the earlier -m  *)
(* arguments were.                                                         *)
C8_Original ==
  (pc = "operands" /\ Cardinality(MIdx) >= 2) => AgreesWithLastM

(* C8 amended: with more than one -m, all but the last well-formed, the    *)
(* state after option scanning is that of the invocation given only the    *)
(* last -m.                                                                *)
C8_LastModeWins ==
  (/\ pc = "operands"
   /\ Cardinality(MIdx) >= 2
   /\ \A k \in MIdx : (\E j \in MIdx : j > k) => WellFormedMode(argv.opts[k].optarg))
    => AgreesWithLastM

C8_Witness ==
  /\ pc = "operands"
  /\ argv.opts = <<OptM(<<"u", "+", "x">>), OptM(<<"g", "o", "-", "w">>)>>
  /\ mkfifo_ctx.mode = 420
  /\ mkfifo_ctx.status_code = EXIT_SUCCESS

(* C9: the status starts as success and, once failure, stays failure.      *)
C9_StickyFailure ==
  /\ mkfifo_ctx.status_code = EXIT_SUCCESS
  /\ [][mkfifo_ctx.status_code = EXIT_FAILURE =>
          mkfifo_ctx'.status_code = EXIT_FAILURE]_vars

C9_Witness ==
  /\ pc = "operands"
  /\ argv.opts = <<OptM(<<"a", "b", "c">>), OptM(<<"1", "2", "3">>)>>
  /\ mkfifo_ctx.mode = 83
  /\ mkfifo_ctx.status_code = EXIT_FAILURE

(* C10: once an unrecognized option was seen, mkfifo() is never called,    *)
(* no "missing file" diagnostic is written and the file system is left     *)
(* unchanged.                                                              *)
C10_UnknownOptionGate ==
  UnknownSeen =>
    /\ attempts = <<>>
    /\ DOMAIN fs = {}
    /\ <<"missing file...">> \notin Range(stderr)

C10_Witness ==
  /\ pc = "done"
  /\ argv.opts = <<OptM(<<"1", "2", "3">>), OptUnknown>>
  /\ argc = 2
  /\ attempts = <<>>
  /\ stderr = <<>>

====
